---- MODULE Spec2Model ----
(***************************************************************************)
(* Model of fix_pngs.py: a script that walks the two sprite directories    *)
(* 'right' and 'left' and truncates every '.png' file just after the       *)
(* first IEND marker and its 4-byte CRC.                                   *)
(*                                                                         *)
(* Bytes are integers 0..255, a file is a sequence of bytes, a file name   *)
(* is a sequence of one-character strings, a path is a sequence of path    *)
(* components.  Indices computed by the program (iend_idx, cutoff) are     *)
(* 0-based as in Python; TLA+ sequences are 1-based.                       *)
(***************************************************************************)
EXTENDS Integers, Sequences, FiniteSets, TLC

VARIABLES
    fs,        \* the file system: path -> content (a sequence of bytes)
    pc,        \* position of the script
    subdirs,   \* subdirectories the outer loop has not visited yet
    d,         \* current directory path
    pending,   \* entries of os.listdir(d) the inner loop has not visited yet
    mk,        \* current directory entry
    path,      \* fix_png's argument
    data,      \* fix_png's local: the bytes read
    iend_idx,  \* fix_png's local
    cutoff,    \* fix_png's local
    out,       \* console output of the current run: sequence of messages
    fault,     \* the unhandled exception that ended the run, or "none"
    runNo,     \* number of the current run of the script
    opened,    \* history: paths opened (for reading or writing) in this run
    calls,     \* history: arguments of the fix_png calls of this run, in order
    writes,    \* history: number of open(path, 'wb') done by the current call
    pre,       \* history: the file system when the current call began
    fs0,       \* history: the file system when the current run began
    prevDone,  \* history: the previous run ended normally
    prevStripped  \* history: the previous run ended normally and truncated a file

vars == <<fs, pc, subdirs, d, pending, mk, path, data, iend_idx, cutoff, out,
          fault, runNo, opened, calls, writes, pre, fs0, prevDone,
          prevStripped>>

\* what is remembered of the runs so far
runHist == <<fs0, prevDone, prevStripped>>

----------------------------------------------------------------------------
(* Bounds *)

\* file contents are built from at most MaxTokens tokens
MaxTokens == 3
\* the script is run at most Runs times in succession
Runs == 2

----------------------------------------------------------------------------
(* Bytes and byte strings *)

\* b'IEND'  (49 45 4E 44)
IEND == <<73, 69, 78, 68>>
\* the CRC of a real IEND chunk (AE 42 60 82)
CRC == <<174, 66, 96, 130>>

RECURSIVE Flatten(_)
Flatten(ss) == IF ss = <<>> THEN <<>> ELSE Head(ss) \o Flatten(Tail(ss))

\* the pieces file contents are built from: the marker, a CRC, a padding
\* byte, and a lone 'I' (a partial match of the marker)
Tokens == {IEND, CRC, <<0>>, <<73>>}

\* the start of the PNG signature (89 50 4E 47)
Signature == <<137, 80, 78, 71>>

\* file contents: with or without the signature, then up to MaxTokens tokens
Contents ==
    {h \o Flatten(ts) : h \in {<<>>, Signature},
                        ts \in UNION {[1..n -> Tokens] : n \in 0..MaxTokens}}

Min(S) == CHOOSE x \in S : \A y \in S : x <= y

\* variant of Find: the highest index (bytes.rfind)
FindLast(bytes, sub) ==
    LET idxs == {i \in 0..(Len(bytes) - Len(sub)) :
                    SubSeq(bytes, i + 1, i + Len(sub)) = sub}
    IN  IF idxs = {} THEN -1 ELSE CHOOSE x \in idxs : \A y \in idxs : x >= y

\* variant of Find: 0 instead of -1 when sub does not occur
FindOrZero(bytes, sub) ==
    LET idxs == {i \in 0..(Len(bytes) - Len(sub)) :
                    SubSeq(bytes, i + 1, i + Len(sub)) = sub}
    IN  IF idxs = {} THEN 0 ELSE Min(idxs)

\* bytes.find(sub): the lowest 0-based index at which sub occurs, else -1
Find(bytes, sub) ==
    LET idxs == {i \in 0..(Len(bytes) - Len(sub)) :
                    SubSeq(bytes, i + 1, i + Len(sub)) = sub}
    IN  IF idxs = {} THEN -1 ELSE Min(idxs)

\* variant of Slice: one byte too many (data[:n + 1])
SliceOneMore(bytes, n) ==
    SubSeq(bytes, 1, IF n + 1 < Len(bytes) THEN n + 1 ELSE Len(bytes))

\* data[:n] for n >= 0 (a Python slice clamps to the length)
Slice(bytes, n) == SubSeq(bytes, 1, IF n < Len(bytes) THEN n ELSE Len(bytes))

----------------------------------------------------------------------------
(* Names and paths *)

\* variant of EndsWith: the comparison ignores the case of p, n, g
EndsWithNoCase(name, suffix) ==
    LET up(c) == CASE c = "p" -> "P" [] c = "n" -> "N" [] c = "g" -> "G"
                   [] OTHER -> c
    IN  /\ Len(name) >= Len(suffix)
        /\ \A i \in 1..Len(suffix) :
              up(name[Len(name) - Len(suffix) + i]) = up(suffix[i])

\* str.endswith(suffix), case-sensitive
EndsWith(name, suffix) ==
    /\ Len(name) >= Len(suffix)
    /\ SubSeq(name, Len(name) - Len(suffix) + 1, Len(name)) = suffix

DotPng == <<".", "p", "n", "g">>

\* os.path.join(dir, entry) and os.path.basename(path)
Join(dir, entry) == Append(dir, entry)
Basename(p) == p[Len(p)]

base_dir == <<"d:", "Workspaces", "OLLM CLI", "docs", "lama_sprite">>
SubdirList == <<"right", "left">>

\* directory entries of the model's file system
NameA == <<"a", ".", "p", "n", "g">>
NameE == <<"e", ".", "p", "n", "g">>
NameUpper == <<"b", ".", "P", "N", "G">>
NameTxt == <<"c", ".", "t", "x", "t">>
NameBare == <<"p", "n", "g">>

RightDir == Join(base_dir, "right")
LeftDir == Join(base_dir, "left")

Paths ==
    {Join(RightDir, NameA), Join(RightDir, NameE), Join(RightDir, NameUpper),
     Join(LeftDir, NameA), Join(LeftDir, NameTxt), Join(LeftDir, NameBare)}

\* os.listdir(dir): the entries of dir, in no particular order
ListDir(dir) ==
    {Basename(p) : p \in {q \in Paths : SubSeq(q, 1, Len(q) - 1) = dir}}

\* a file with trailing bytes after the IEND chunk, one that ends with its
\* IEND chunk, and one without a marker
Dirty == IEND \o CRC \o <<0, 0>>
Clean == Signature \o IEND \o CRC
NoMarker == <<0, 73, 0>>

----------------------------------------------------------------------------
(* Console messages *)

MsgStripping(n, name) == [kind |-> "Stripping", n |-> n, name |-> name]
MsgOK(name) == [kind |-> "OK", name |-> name]
MsgWarning(name) == [kind |-> "WARNING", name |-> name]

----------------------------------------------------------------------------
(* Initial state: a file system, and the script about to start *)

Init ==
    /\ \E c \in Contents :
          fs = [p \in Paths |->
                  CASE p = Join(RightDir, NameA) -> c
                    [] p = Join(RightDir, NameE) -> NoMarker
                    [] p = Join(LeftDir, NameA) -> Clean
                    [] OTHER -> Dirty]
    /\ pc = "for_subdir"
    /\ subdirs = SubdirList
    /\ d = <<>>
    /\ pending = {}
    /\ mk = <<>>
    /\ path = <<>>
    /\ data = <<>>
    /\ iend_idx = -1
    /\ cutoff = 0
    /\ out = <<>>
    /\ fault = "none"
    /\ runNo = 1
    /\ opened = {}
    /\ calls = <<>>
    /\ writes = 0
    /\ pre = fs
    /\ fs0 = fs
    /\ prevDone = FALSE
    /\ prevStripped = FALSE

----------------------------------------------------------------------------
(* The driver loop, lines 26-30 *)

\* variant of Raise: the exception is swallowed and the inner loop goes on
RaiseCaught(what) ==
    /\ pc' = "for_mk"
    /\ fault' = what

\* an unhandled exception: the interpreter unwinds and the script ends
Raise(what) ==
    /\ pc' = "aborted"
    /\ fault' = what

\* for subdir in ['right', 'left']: d = join(base_dir, subdir); listdir(d)
ForSubdir ==
    /\ pc = "for_subdir"
    /\ subdirs # <<>>
    /\ d' = Join(base_dir, Head(subdirs))
    /\ subdirs' = Tail(subdirs)
    /\ pending' = ListDir(d')
    /\ pc' = "for_mk"
    /\ UNCHANGED <<fs, mk, path, data, iend_idx, cutoff, out, fault, runNo,
                   opened, calls, writes, pre, runHist>>

\* os.listdir(d) raises (directory missing, permission denied)
ListDirFault ==
    /\ pc = "for_subdir"
    /\ subdirs # <<>>
    /\ d' = Join(base_dir, Head(subdirs))
    /\ subdirs' = Tail(subdirs)
    /\ Raise("listdir")
    /\ UNCHANGED <<fs, pending, mk, path, data, iend_idx, cutoff, out, runNo,
                   opened, calls, writes, pre, runHist>>

\* the outer loop is exhausted: the script ends normally
EndRun ==
    /\ pc = "for_subdir"
    /\ subdirs = <<>>
    /\ pc' = "done"
    /\ UNCHANGED <<fs, subdirs, d, pending, mk, path, data, iend_idx, cutoff,
                   out, fault, runNo, opened, calls, writes, pre, runHist>>

\* if mk.endswith('.png')
IsPng(name) == EndsWith(name, DotPng)

\* for mk in os.listdir(d): the entry does not end with '.png'
ForMkSkip ==
    /\ pc = "for_mk"
    /\ \E m \in pending :
          /\ ~IsPng(m)
          /\ mk' = m
          /\ pending' = pending \ {m}
    /\ UNCHANGED <<fs, pc, subdirs, d, path, data, iend_idx, cutoff, out,
                   fault, runNo, opened, calls, writes, pre, runHist>>

\* for mk in os.listdir(d): the entry ends with '.png', fix_png is called
ForMkCall ==
    /\ pc = "for_mk"
    /\ \E m \in pending :
          /\ IsPng(m)
          /\ mk' = m
          /\ pending' = pending \ {m}
          /\ path' = Join(d, m)
          /\ calls' = Append(calls, Join(d, m))
    /\ pc' = "open_rb"
    /\ data' = <<>>
    /\ iend_idx' = -1
    /\ cutoff' = 0
    /\ writes' = 0
    /\ pre' = fs
    /\ UNCHANGED <<fs, subdirs, d, out, fault, runNo, opened, runHist>>

\* the inner loop is exhausted
ForMkEnd ==
    /\ pc = "for_mk"
    /\ pending = {}
    /\ pc' = "for_subdir"
    /\ UNCHANGED <<fs, subdirs, d, pending, mk, path, data, iend_idx, cutoff,
                   out, fault, runNo, opened, calls, writes, pre, runHist>>

----------------------------------------------------------------------------
(* fix_png(path), lines 6-23 *)

\* variant of Cutoff: the CRC is forgotten
CutoffNoCRC(idx) == idx + 4

\* cutoff = iend_idx + 8: IEND is 4 bytes + 4 bytes CRC
Cutoff(idx) == idx + 8

\* with open(path, 'rb') as f: data = f.read()
OpenRead ==
    /\ pc = "open_rb"
    /\ opened' = opened \cup {path}
    /\ data' = fs[path]
    /\ pc' = "scan"
    /\ UNCHANGED <<fs, subdirs, d, pending, mk, path, iend_idx, cutoff, out,
                   fault, runNo, calls, writes, pre, runHist>>

\* open(path, 'rb') raises (permission denied, not a regular file, vanished)
OpenReadFault ==
    /\ pc = "open_rb"
    /\ Raise("open_rb")
    /\ UNCHANGED <<fs, subdirs, d, pending, mk, path, data, iend_idx, cutoff,
                   out, runNo, opened, calls, writes, pre, runHist>>

\* f.read() raises after the file was opened
ReadFault ==
    /\ pc = "open_rb"
    /\ opened' = opened \cup {path}
    /\ Raise("read")
    /\ UNCHANGED <<fs, subdirs, d, pending, mk, path, data, iend_idx, cutoff,
                   out, runNo, calls, writes, pre, runHist>>

\* iend_idx != -1 and len(data) > cutoff: report, then go on to overwrite
Strip ==
    /\ pc = "scan"
    /\ iend_idx' = Find(data, IEND)
    /\ iend_idx' # -1
    /\ cutoff' = Cutoff(iend_idx')
    /\ Len(data) > cutoff'
    /\ out' = Append(out, MsgStripping(Len(data) - cutoff', Basename(path)))
    /\ pc' = "open_wb"
    /\ UNCHANGED <<fs, subdirs, d, pending, mk, path, data, fault, runNo,
                   opened, calls, writes, pre, runHist>>

\* variant of ReportOK: the length is not compared with cutoff
ReportOKAnyLength ==
    /\ pc = "scan"
    /\ iend_idx' = Find(data, IEND)
    /\ iend_idx' # -1
    /\ cutoff' = Cutoff(iend_idx')
    /\ out' = Append(out, MsgOK(Basename(path)))
    /\ pc' = "ret"
    /\ UNCHANGED <<fs, subdirs, d, pending, mk, path, data, fault, runNo,
                   opened, calls, writes, pre, runHist>>

\* iend_idx != -1 and not len(data) > cutoff: report OK
ReportOK ==
    /\ pc = "scan"
    /\ iend_idx' = Find(data, IEND)
    /\ iend_idx' # -1
    /\ cutoff' = Cutoff(iend_idx')
    /\ ~(Len(data) > cutoff')
    /\ out' = Append(out, MsgOK(Basename(path)))
    /\ pc' = "ret"
    /\ UNCHANGED <<fs, subdirs, d, pending, mk, path, data, fault, runNo,
                   opened, calls, writes, pre, runHist>>

\* variant of Warn: the missing marker is not tested for, and the file is
\* overwritten with data[:cutoff] all the same
WarnAndWrite ==
    /\ pc = "scan"
    /\ iend_idx' = Find(data, IEND)
    /\ iend_idx' = -1
    /\ cutoff' = Cutoff(iend_idx')
    /\ out' = Append(out, MsgWarning(Basename(path)))
    /\ pc' = "open_wb"
    /\ UNCHANGED <<fs, subdirs, d, pending, mk, path, data, fault, runNo,
                   opened, calls, writes, pre, runHist>>

\* variant of Warn: the missing marker ends the script
WarnFatal ==
    /\ pc = "scan"
    /\ iend_idx' = Find(data, IEND)
    /\ iend_idx' = -1
    /\ out' = Append(out, MsgWarning(Basename(path)))
    /\ Raise("no_iend")
    /\ UNCHANGED <<fs, subdirs, d, pending, mk, path, data, cutoff, runNo,
                   opened, calls, writes, pre, runHist>>

\* iend_idx == -1: warn
Warn ==
    /\ pc = "scan"
    /\ iend_idx' = Find(data, IEND)
    /\ iend_idx' = -1
    /\ out' = Append(out, MsgWarning(Basename(path)))
    /\ pc' = "ret"
    /\ UNCHANGED <<fs, subdirs, d, pending, mk, path, data, cutoff, fault,
                   runNo, opened, calls, writes, pre, runHist>>

\* variant of OpenWrite: a temporary file is opened, the original is kept
OpenWriteTemp ==
    /\ pc = "open_wb"
    /\ opened' = opened \cup {path}
    /\ writes' = writes + 1
    /\ pc' = "write"
    /\ UNCHANGED <<fs, subdirs, d, pending, mk, path, data, iend_idx, cutoff,
                   out, fault, runNo, calls, pre, runHist>>

\* open(path, 'wb'): the file is opened and emptied
OpenWrite ==
    /\ pc = "open_wb"
    /\ fs' = [fs EXCEPT ![path] = <<>>]
    /\ opened' = opened \cup {path}
    /\ writes' = writes + 1
    /\ pc' = "write"
    /\ UNCHANGED <<subdirs, d, pending, mk, path, data, iend_idx, cutoff, out,
                   fault, runNo, calls, pre, runHist>>

\* open(path, 'wb') raises (read-only file): nothing was touched
OpenWriteFault ==
    /\ pc = "open_wb"
    /\ Raise("open_wb")
    /\ UNCHANGED <<fs, subdirs, d, pending, mk, path, data, iend_idx, cutoff,
                   out, runNo, opened, calls, writes, pre, runHist>>

\* f.write(data[:cutoff]) and the close that ends the with block
Write ==
    /\ pc = "write"
    /\ fs' = [fs EXCEPT ![path] = Slice(data, cutoff)]
    /\ pc' = "ret"
    /\ UNCHANGED <<subdirs, d, pending, mk, path, data, iend_idx, cutoff, out,
                   fault, runNo, opened, calls, writes, pre, runHist>>

\* the write or the flush raises, or the process dies (disk full, crash):
\* some proper prefix of data[:cutoff], possibly nothing, reached the file
WriteFault ==
    /\ pc = "write"
    /\ \E n \in 0..(Len(Slice(data, cutoff)) - 1) :
          fs' = [fs EXCEPT ![path] = SubSeq(data, 1, n)]
    /\ Raise("write")
    /\ UNCHANGED <<subdirs, d, pending, mk, path, data, iend_idx, cutoff, out,
                   runNo, opened, calls, writes, pre, runHist>>

\* fix_png returns: its locals are gone, the inner loop goes on
Return ==
    /\ pc = "ret"
    /\ pc' = "for_mk"
    /\ path' = <<>>
    /\ data' = <<>>
    /\ iend_idx' = -1
    /\ cutoff' = 0
    /\ writes' = 0
    /\ UNCHANGED <<fs, subdirs, d, pending, mk, out, fault, runNo, opened,
                   calls, pre, runHist>>

----------------------------------------------------------------------------
(* Running the script again *)

StartRun ==
    /\ pc \in {"done", "aborted"}
    /\ runNo < Runs
    /\ runNo' = runNo + 1
    /\ prevDone' = (pc = "done")
    /\ prevStripped' = (pc = "done" /\
                           \E k \in 1..Len(out) : out[k].kind = "Stripping")
    /\ pc' = "for_subdir"
    /\ subdirs' = SubdirList
    /\ d' = <<>>
    /\ pending' = {}
    /\ mk' = <<>>
    /\ path' = <<>>
    /\ data' = <<>>
    /\ iend_idx' = -1
    /\ cutoff' = 0
    /\ out' = <<>>
    /\ fault' = "none"
    /\ opened' = {}
    /\ calls' = <<>>
    /\ writes' = 0
    /\ pre' = fs
    /\ fs0' = fs
    /\ UNCHANGED fs

----------------------------------------------------------------------------
(* Specifications *)

\* one step of the script
Step ==
    \/ ForSubdir
    \/ ListDirFault
    \/ EndRun
    \/ ForMkSkip
    \/ ForMkCall
    \/ ForMkEnd
    \/ OpenRead
    \/ OpenReadFault
    \/ ReadFault
    \/ Strip
    \/ ReportOK
    \/ Warn
    \/ OpenWrite
    \/ OpenWriteFault
    \/ Write
    \/ WriteFault
    \/ Return

Next == Step \/ StartRun

Spec == Init /\ [][Next]_vars

\* one run of the script: the interpreter keeps executing it until it ends
LiveSpec == Init /\ [][Step]_vars /\ WF_vars(Step)

----------------------------------------------------------------------------
(* Vocabulary of the properties *)

\* the 4 bytes I E N D stand at 0-based offset i of bytes
MarkerAt(bytes, i) ==
    /\ i + 4 <= Len(bytes)
    /\ bytes[i + 1] = 73
    /\ bytes[i + 2] = 69
    /\ bytes[i + 3] = 78
    /\ bytes[i + 4] = 68

FirstMarkerAt(bytes, i) ==
    /\ MarkerAt(bytes, i)
    /\ \A j \in 0..(i - 1) : ~MarkerAt(bytes, j)

HasMarker(bytes) == \E i \in 0..Len(bytes) : MarkerAt(bytes, i)

\* the name ends with the four characters . p n g
HasPngSuffix(name) ==
    /\ Len(name) >= 4
    /\ name[Len(name) - 3] = "."
    /\ name[Len(name) - 2] = "p"
    /\ name[Len(name) - 1] = "n"
    /\ name[Len(name)] = "g"

PngPaths == {p \in Paths : HasPngSuffix(p[Len(p)])}

\* a call of fix_png has begun and has not returned
InCall == path # <<>>

LastMsg == out[Len(out)]

\* the call has emitted exactly one message
OneMessage == Len(out) = Len(calls)

Called == {calls[k] : k \in 1..Len(calls)}

IOFaults == {"listdir", "open_rb", "read", "open_wb", "write"}

----------------------------------------------------------------------------
(* Properties of fix_png *)

\* C1: when the file held a prefix, the first IEND, 4 more bytes and K > 0
\* trailing bytes, then once fix_png has returned the file is K bytes
\* shorter, its first (length - K) bytes are the original ones, and the one
\* message of the call is 'Stripping K trailing bytes from <filename>'.
C1_StripsExactlyK ==
    pc = "ret" =>
        \A i \in 0..Len(pre[path]) :
            LET old == pre[path]
                K == Len(old) - (i + 8)
            IN  (FirstMarkerAt(old, i) /\ K > 0) =>
                    /\ Len(fs[path]) = Len(old) - K
                    /\ \A j \in 1..(Len(old) - K) : fs[path][j] = old[j]
                    /\ OneMessage
                    /\ LastMsg = MsgStripping(K, mk)

\* a file with a non-empty prefix before the marker and trailing bytes after
\* the CRC has been processed
C1_Witness ==
    /\ pc = "ret"
    /\ \E i \in 1..Len(pre[path]) :
          /\ FirstMarkerAt(pre[path], i)
          /\ Len(pre[path]) > i + 8
    /\ fs[path] # pre[path]

\* C2: when the first IEND of the file is followed by exactly 4 bytes and
\* nothing else, fix_png never opens the file for writing, leaves it
\* byte-for-byte unchanged and its one message is 'OK: <filename>'.
C2_CleanFileUntouched ==
    (InCall /\ \E i \in 0..Len(pre[path]) :
                  FirstMarkerAt(pre[path], i) /\ Len(pre[path]) = i + 8) =>
        /\ fs[path] = pre[path]
        /\ writes = 0
        /\ pc \notin {"open_wb", "write"}
        /\ pc = "ret" => (OneMessage /\ LastMsg = MsgOK(mk))

\* a file that ends right after the CRC, with a prefix before the marker,
\* has been processed
C2_Witness ==
    /\ pc = "ret"
    /\ \E i \in 1..Len(pre[path]) :
          FirstMarkerAt(pre[path], i) /\ Len(pre[path]) = i + 8
    /\ LastMsg.kind = "OK"

\* C3: when the file holds no IEND anywhere, fix_png never opens it for
\* writing, leaves it byte-for-byte unchanged and its one message is
\* 'WARNING: No IEND found in <filename>'.
C3_NoMarkerUntouched ==
    (InCall /\ ~HasMarker(pre[path])) =>
        /\ fs[path] = pre[path]
        /\ writes = 0
        /\ pc \notin {"open_wb", "write"}
        /\ pc = "ret" => (OneMessage /\ LastMsg = MsgWarning(mk))

\* a non-empty file without the marker has been processed
C3_Witness ==
    /\ pc = "ret"
    /\ ~HasMarker(pre[path])
    /\ Len(pre[path]) >= 4
    /\ LastMsg.kind = "WARNING"

\* C6: a call of fix_png opens its file for writing at most once, and only
\* when the marker was found and the file was longer than (index of the
\* first IEND) + 8; nothing changes in the file system without such a write,
\* and no other file changes.
C6_AtMostOneWrite ==
    InCall =>
        /\ writes <= 1
        /\ writes = 1 =>
              \E i \in 0..Len(pre[path]) :
                  FirstMarkerAt(pre[path], i) /\ Len(pre[path]) > i + 8
        /\ fs # pre => writes = 1
        /\ \A p \in Paths \ {path} : fs[p] = pre[p]

\* a call has written its file
C6_Witness ==
    /\ pc = "ret"
    /\ writes = 1
    /\ fs[path] # pre[path]

\* C9 as stated: whenever fix_png found the marker and reported OK, the
\* length of the file equals cutoff = (index of the first IEND) + 8.
C9_Original ==
    (pc = "ret" /\ LastMsg.kind = "OK") =>
        \E i \in 0..Len(pre[path]) :
            /\ FirstMarkerAt(pre[path], i)
            /\ cutoff = i + 8
            /\ Len(pre[path]) = cutoff

\* C9 amended: whenever fix_png found the marker and reported OK, the length
\* of the file is at most cutoff = (index of the first IEND) + 8: the marker
\* is followed by at most 4 bytes.
C9_Amended ==
    (pc = "ret" /\ LastMsg.kind = "OK") =>
        \E i \in 0..Len(pre[path]) :
            /\ FirstMarkerAt(pre[path], i)
            /\ cutoff = i + 8
            /\ Len(pre[path]) <= cutoff

\* OK was reported for a file whose marker is followed by fewer than 4 bytes
C9_Witness ==
    /\ pc = "ret"
    /\ LastMsg.kind = "OK"
    /\ HasMarker(pre[path])
    /\ Len(pre[path]) < cutoff

\* C10: between the reopening for writing and the completed write, and after
\* a fault or crash in that window, the file holds neither its original
\* content nor the intended truncated content.
C10_NotAtomic ==
    (pc = "write" \/ (pc = "aborted" /\ fault = "write")) =>
        /\ fs[path] # pre[path]
        /\ \A i \in 0..Len(pre[path]) :
              FirstMarkerAt(pre[path], i) =>
                  fs[path] # SubSeq(pre[path], 1, i + 8)

\* the write failed part-way: the file holds a non-empty part of the
\* intended content
C10_Witness ==
    /\ pc = "aborted"
    /\ fault = "write"
    /\ fs[path] # <<>>
    /\ HasMarker(pre[path])

----------------------------------------------------------------------------
(* Properties of the driver loop *)

\* C5: an entry whose name does not end with '.png' (case-sensitive) is
\* never opened, never passed to fix_png and never modified during a run;
\* every entry the loop has visited whose name ends with '.png' has been
\* passed to fix_png, and a run that ends normally has called fix_png on
\* every '.png' entry of both directories.
C5_OnlyPngTouched ==
    /\ opened \subseteq PngPaths
    /\ Called \subseteq PngPaths
    /\ \A p \in Paths \ PngPaths : fs[p] = fs0[p]
    /\ (d # <<>> /\ fault # "listdir") =>
          \A m \in ListDir(d) \ pending :
              HasPngSuffix(m) => Join(d, m) \in Called
    /\ pc = "done" => Called = PngPaths

\* a run has ended normally, having visited entries with other suffixes
C5_Witness ==
    /\ pc = "done"
    /\ Called = PngPaths
    /\ Paths \ PngPaths # {}
    /\ \E p \in PngPaths : fs[p] # fs0[p]

\* C7: an I/O fault ends the run at once, and after it nothing is opened,
\* written or reported any more in that run.
C7_FaultAborts ==
    /\ [](fault # "none" => pc = "aborted")
    /\ [][(pc = "aborted" /\ runNo' = runNo) =>
             /\ pc' = "aborted"
             /\ fs' = fs
             /\ out' = out
             /\ opened' = opened
             /\ calls' = calls]_vars

\* a run was aborted by a fault while '.png' entries were still to visit
C7_Witness ==
    /\ pc = "aborted"
    /\ fault \in IOFaults
    /\ Called # PngPaths

\* C4 as stated: on a second run after a completed one, nothing is truncated
\* and every file reports OK.
C4_Original ==
    (runNo >= 2 /\ prevDone) =>
        /\ fs = fs0
        /\ \A k \in 1..Len(out) : out[k].kind = "OK"

\* C4 amended: on a run that follows a run that ended normally, nothing is
\* truncated; every file that holds the marker reports OK and every file
\* that does not reports the warning again.
C4_Amended ==
    (runNo >= 2 /\ prevDone) =>
        /\ fs = fs0
        /\ writes = 0
        /\ Len(out) <= Len(calls)
        /\ \A k \in 1..Len(out) :
              out[k] = IF HasMarker(fs0[calls[k]])
                         THEN MsgOK(calls[k][Len(calls[k])])
                         ELSE MsgWarning(calls[k][Len(calls[k])])

\* the second run has ended, after a first run that truncated a file
C4_Witness ==
    /\ runNo = 2
    /\ prevDone
    /\ prevStripped
    /\ pc = "done"
    /\ Len(out) = Cardinality(PngPaths)

\* C8: a warning does not end the run: after it, unless an I/O fault aborts
\* the run, the run ends normally having called fix_png on every '.png'
\* entry, those of 'right' before those of 'left'.
C8_WarningNonFatal ==
    /\ [](\A j, k \in 1..Len(calls) :
             (calls[j][Len(base_dir) + 1] = "left" /\
              calls[k][Len(base_dir) + 1] = "right") => k < j)
    /\ (out # <<>> /\ LastMsg.kind = "WARNING")
          ~> \/ pc = "aborted" /\ fault \in IOFaults
             \/ pc = "done" /\ Called = PngPaths

\* a warning was given while '.png' entries remain in this directory and
\* the other directory is still to come
C8_Witness ==
    /\ pc = "ret"
    /\ LastMsg.kind = "WARNING"
    /\ \E m \in pending : HasPngSuffix(m)
    /\ subdirs # <<>>

====
